---- MODULE Spec2Model ----
(***************************************************************************)
(* Model of the graphics resource subsystem of Interstellar Armada:        *)
(* TextureResource, CubemapResource, ShaderResource, ModelResource and     *)
(* GraphicsResourceManager (src/unnamed/part_000).                         *)
(*                                                                         *)
(* One step of the model is one run-to-completion JavaScript call or one   *)
(* asynchronous completion callback (single-threaded event loop).          *)
(*                                                                         *)
(* The base classes GenericResource and ResourceManager                    *)
(* (modules/resource-manager) are not among the source files; their        *)
(* lifecycle (Unrequested -> Requested -> Loading -> Ready, isRequested,   *)
(* isLoaded, isReadyToUse, setToReady, _onFilesLoad, getResource,          *)
(* requestResourceLoad) is modelled from the specification text.           *)
(***************************************************************************)
EXTENDS Integers, Sequences, FiniteSets, TLC

\* ------------------------------------------------------------------------
\* Declared configuration of the resources (dataJSON)

\* keys of TextureResource._typeSuffixes
Types == {"diffuse", "specular"}

\* keys of TextureResource._qualitySuffixes
Qualities == {"low", "high"}

\* stands for an omitted params.types / params.qualities (params.x || this._xSuffixes)
Omitted == {"<omitted>"}

\* the params objects of texture requests: {types?, qualities?}
TexParams ==
    [types : {Omitted, {}, {"diffuse"}, {"specular"}}, qualities : {Omitted, {}, {"low"}}]

\* params === undefined (params = params || {})
NoParams == [types |-> Omitted, qualities |-> Omitted]

\* the six faces, in the order getManagedCubemap lists them
FaceOrder == <<"posX", "negX", "posY", "negY", "posZ", "negZ">>

Faces == {FaceOrder[i] : i \in 1..Len(FaceOrder)}

\* names in the "shaders" category
Shaders == {"X", "Y"}

\* names in the "models" category: "ship" is declared with files, "dyn" is the
\* name of a model object created at run time
ModelNames == {"ship", "dyn"}

\* identifiers of the resource objects
TexRes == {"tex"}
CubeRes == {"cube"}
Res == TexRes \cup CubeRes \cup Shaders \cup ModelNames

\* the populations of the registry the manager is loaded with
Registries == {{"tex"}, {"cube"}, {"X", "Y"}, {"ship"}, {"cube", "X"}}

\* load state of a GenericResource
States == {"Unrequested", "Requested", "Loading", "Ready"}

\* ------------------------------------------------------------------------
\* Values

\* null / undefined as results
Null == [tag |-> "null"]
Undefined == [tag |-> "undefined"]

\* the result of a boolean-valued call
Bool(b) == [tag |-> "boolean", value |-> b]

\* a reference to a registered resource object
ResourceRef(r) == [tag |-> "resource", name |-> r]

VARIABLES
    registered,         \* resources present in the registry
    state,              \* GenericResource load state, per resource
    tex_params,         \* params the texture was last scheduled with
    tex_images,         \* TextureResource._images
    tex_loadedImages,   \* TextureResource._loadedImages
    tex_imagesToLoad,   \* TextureResource._imagesToLoad
    tex_managedTextures,\* TextureResource._managedTextures
    tex_fetches,        \* history: number of times each image's src was set
    tex_built,          \* history: number of ManagedTexture objects constructed per cell
    tex_open,           \* history: the _requestFiles calls with images still loading, with their params
    cube_images,        \* CubemapResource._images: per face, the _requestFiles call that made its Image (0: none)
    cube_facesLoaded,   \* the facesLoaded counter of each _requestFiles call
    cube_pending,       \* face images whose onload has not fired yet, as <<call, face>>
    cube_managedCubemap,\* CubemapResource._managedCubemap
    cube_built,         \* history: number of ManagedCubemap objects constructed
    sh_vertexShaderSource,   \* ShaderResource._vertexShaderSource, per shader
    sh_fragmentShaderSource, \* ShaderResource._fragmentShaderSource, per shader
    sh_pending,         \* text requests of the shader that have not completed yet
    sh_managedShader,   \* ShaderResource._managedShader
    sh_built,           \* history: number of ManagedShader objects constructed
    sh_fallbackShaderName,   \* ShaderResource._fallbackShaderName, per shader
    mdl_source,         \* the dataJSON.model a ModelResource was constructed from (Null: file-backed)
    mdl_files,          \* ModelResource._files: the maxLOD of each file descriptor
    mdl_params,         \* params.maxLOD the model was last scheduled with
    mdl_loadedFiles,    \* ModelResource._loadedFiles
    mdl_filesToLoad,    \* ModelResource._filesToLoad
    mdl_model,          \* ModelResource._model
    mdl_maxLoadedLOD,   \* ModelResource._maxLoadedLOD
    mdl_pending,        \* text requests of the model that have not completed yet: the LOD of
                        \* the file and (history) the params of the _requestFiles call
    ret,                \* the value the last call returned
    err,                \* the error the last call reported through application.showError
    res_onReady,        \* resources with a callback in their queue of deferred callbacks
    res_ran,            \* history: resources whose executeWhenReady callback has run
    mgr_onReady,        \* the resource manager holds the continuation of startNewBattle
    scr_phase,          \* BattleScreen: position in the onLoad handler of startNewBattle
    scr_scene,          \* history: the resources scheduled when the continuation was registered
    scr_bound,          \* BattleScreen: the scene has been bound to the battle canvas
    scr_renderLoop,     \* GameScreenWithCanvases._renderLoop is set
    scr_closed,         \* closePage has been called on the screen since it was last shown
    gs_readyState,      \* readyState of the XMLHttpRequest of requestModelLoad
    gs_model,           \* GameScreen._model: "null", or the response text it was built from
    gs_onModelLoad,     \* GameScreen._onModelLoad
    gs_body,            \* document.body: the previous page, or the model content it was cloned from
    gs_background,      \* GameScreen._background !== null
    gs_attached,        \* the element _background refers to is a child of document.body
    gs_stale,           \* a superimposed layer other than _background's is in document.body
    gs_status,          \* GameScreen._status !== null
    gs_runs,            \* history: number of calls of _onModelLoad that ran a page-building function
    gs_ranPartial,      \* history: a page-building function ran on an incomplete model
    mp_missionDescriptor,   \* mission preview: _missionDescriptor
    mp_mission,         \* mission preview: _mission
    mp_created,         \* history: number of missions createMission has returned
    mp_destroyed,       \* history: number of destroy() calls on missions
    mp_added,           \* history: the object the last addToScene call was made on
    mp_refreshed,       \* history: the params the last preview.refresh call was given
    mp_settingsCleared  \* history: the last refresh called preview.clearSettingsForNewItem

genVars == <<registered, state>>
texVars == <<tex_params, tex_images, tex_loadedImages, tex_imagesToLoad,
             tex_managedTextures, tex_fetches, tex_built, tex_open>>
cubeVars == <<cube_images, cube_facesLoaded, cube_pending, cube_managedCubemap, cube_built>>
shVars == <<sh_vertexShaderSource, sh_fragmentShaderSource, sh_pending, sh_managedShader, sh_built,
           sh_fallbackShaderName>>
mdlVars == <<mdl_source, mdl_files, mdl_params, mdl_loadedFiles, mdl_filesToLoad, mdl_model,
             mdl_maxLoadedLOD, mdl_pending>>
obsVars == <<ret, err>>
cbVars == <<res_onReady, res_ran, mgr_onReady>>
scrVars == <<scr_phase, scr_scene, scr_bound, scr_renderLoop>>
gsVars == <<scr_closed, gs_readyState, gs_model, gs_onModelLoad, gs_body, gs_background,
           gs_attached, gs_stale, gs_status, gs_runs, gs_ranPartial>>
mpVars == <<mp_missionDescriptor, mp_mission, mp_created, mp_destroyed, mp_added,
           mp_refreshed, mp_settingsCleared>>
uiVars == <<gsVars, mpVars>>
vars == <<genVars, texVars, cubeVars, shVars, mdlVars, obsVars, cbVars, scrVars, uiVars>>

\* ------------------------------------------------------------------------
\* GenericResource

isReadyToUse(r) == state[r] = "Ready"

isLoaded(r) == state[r] = "Ready"

\* scheduled for loading or loading
InFlight(r) == state[r] \in {"Requested", "Loading"}

\* state after GenericResource._onFilesLoad(allDone, payload): setToReady when allDone
OnFilesLoadState(r, allDone) ==
    IF allDone THEN [state EXCEPT ![r] = "Ready"] ELSE state

\* ResourceManager: no resource of the registry is scheduled or loading in st
ManagerReady(st) == \A r \in registered : st[r] \notin {"Requested", "Loading"}

\* the statements of the function startNewBattle passes to executeWhenReady
BattleContinuation ==
    /\ scr_bound' = TRUE
    /\ scr_renderLoop' = TRUE

\* setToReady: the resource runs its deferred callbacks once it is ready, and
\* the manager runs its continuation once no resource is outstanding
Drain ==
    /\ res_onReady' = {r \in res_onReady : state'[r] # "Ready"}
    /\ res_ran' = res_ran \cup {r \in res_onReady : state'[r] = "Ready"}
    /\ IF mgr_onReady /\ ManagerReady(state')
       THEN /\ mgr_onReady' = FALSE
            /\ BattleContinuation
       ELSE UNCHANGED <<mgr_onReady, scr_bound, scr_renderLoop>>
    /\ UNCHANGED <<scr_phase, scr_scene, uiVars>>

\* state after ResourceManager.getResource has found that r requires a reload
ScheduledState(r) == [state EXCEPT ![r] = "Requested"]

\* state after ResourceManager.requestResourceLoad: every scheduled resource
\* has its files requested
LoadingState == [r \in Res |-> IF state[r] = "Requested" THEN "Loading" ELSE state[r]]

\* ------------------------------------------------------------------------
\* TextureResource

Cells == Types \X Qualities

requestedTypes(p) == IF p.types = Omitted THEN Types ELSE p.types

requestedQualities(p) == IF p.qualities = Omitted THEN Qualities ELSE p.qualities

\* the cross-product a params object asks for
RequestedCells(p) == requestedTypes(p) \X requestedQualities(p)

\* a request with params a is equal to or larger than one with params p
TexCovers(a, p) ==
    /\ requestedTypes(p) \subseteq requestedTypes(a)
    /\ requestedQualities(p) \subseteq requestedQualities(a)

\* GenericResource.isRequested(params) of the texture
TexIsRequested(p) == InFlight("tex") /\ TexCovers(tex_params, p)

\* !this._images[type]
TexNoType(images, t) == ~images[t].present

\* !this._images[type][quality]
TexNoImage(images, t, q) == images[t].cells[q] = "absent"

TextureRequiresReload(p) ==
    IF TexIsRequested(p)
    THEN FALSE
    ELSE \E t \in requestedTypes(p) :
            \/ TexNoType(tex_images, t)
            \/ \E q \in requestedQualities(p) : TexNoImage(tex_images, t, q)

\* !this._images[type][quality].src
TexSrcUnset_Always(st) == TRUE

TexSrcUnset(st) == st = "created"

\* _images after the first loop of _requestFiles: an Image object without src
\* for every requested cell that has none
TexImagesCreated(p) ==
    [t \in Types |->
        IF t \in requestedTypes(p)
        THEN [present |-> TRUE,
              cells |-> [q \in Qualities |->
                           IF q \in requestedQualities(p) /\ TexNoImage(tex_images, t, q)
                           THEN "created"
                           ELSE tex_images[t].cells[q]]]
        ELSE tex_images[t]]

\* the cells whose src the second loop of _requestFiles sets
TexCellsFetched(p) ==
    {c \in RequestedCells(p) : TexSrcUnset(TexImagesCreated(p)[c[1]].cells[c[2]])}

TexCellsCounted_FirstOnly(p) ==
    LET new == {c \in RequestedCells(p) : TexNoImage(tex_images, c[1], c[2])}
    IN  IF new = {} THEN {} ELSE {CHOOSE c \in new : TRUE}

\* the cells for which the first loop of _requestFiles increments _imagesToLoad
TexCellsCounted(p) == {c \in RequestedCells(p) : TexNoImage(tex_images, c[1], c[2])}

\* the effect of TextureResource._requestFiles(p)
TextureRequestFiles(p) ==
    /\ tex_imagesToLoad' = tex_imagesToLoad + Cardinality(TexCellsCounted(p))
    /\ tex_images' =
          [t \in Types |->
              [present |-> TexImagesCreated(p)[t].present,
               cells |-> [q \in Qualities |->
                            IF <<t, q>> \in TexCellsFetched(p)
                            THEN "loading"
                            ELSE TexImagesCreated(p)[t].cells[q]]]]
    /\ tex_fetches' = [c \in Cells |->
                          IF c \in TexCellsFetched(p) THEN tex_fetches[c] + 1 ELSE tex_fetches[c]]
    /\ tex_open' = IF TexCellsFetched(p) = {}
                   THEN tex_open
                   ELSE Append(tex_open, [params |-> p, cells |-> TexCellsFetched(p)])

HasCells(batch) == batch.cells # {}

\* the calls still waiting for an image once the image of cell c has loaded
TexOpenAfter(c) ==
    SelectSeq([i \in 1..Len(tex_open) |-> [tex_open[i] EXCEPT !.cells = @ \ {c}]], HasCells)

\* this._images[type][quality] as handed to the ManagedTexture constructor
TexImageRef(t, q) ==
    IF TexNoImage(tex_images, t, q)
    THEN Undefined
    ELSE [tag |-> "Image", type |-> t, quality |-> q,
          complete |-> tex_images[t].cells[q] = "loaded"]

ManagedTexture(image) == [tag |-> "ManagedTexture", image |-> image]

\* a || b on wrapper objects
OrElse_Second(a, b) == b

OrElse(a, b) == IF a # Null THEN a ELSE b

\* ------------------------------------------------------------------------
\* CubemapResource

\* the number of face images that completes a cubemap
NumFaces == 6

\* facesLoaded === 6
CubeAllFacesLoaded_Five(n) == n = NumFaces - 1

CubeAllFacesLoaded_Any(n) == n >= 1

CubeAllFacesLoaded(n) == n = NumFaces

CubemapRequiresReload_NotLoaded == ~isLoaded("cube")

CubemapRequiresReload_Always == TRUE

CubemapRequiresReload ==
    IF InFlight("cube") THEN FALSE ELSE ~isLoaded("cube")

\* this._images[face]
CubeImageRef(f) ==
    IF cube_images[f] = 0
    THEN Undefined
    ELSE [tag |-> "Image", face |-> f, call |-> cube_images[f],
          complete |-> <<cube_images[f], f>> \notin cube_pending]

\* the list of images getManagedCubemap passes to the ManagedCubemap constructor
CubeImageList_Swapped ==
    <<CubeImageRef("negX"), CubeImageRef("posX"), CubeImageRef("posY"),
      CubeImageRef("negY"), CubeImageRef("posZ"), CubeImageRef("negZ")>>

CubeImageList ==
    <<CubeImageRef("posX"), CubeImageRef("negX"), CubeImageRef("posY"),
      CubeImageRef("negY"), CubeImageRef("posZ"), CubeImageRef("negZ")>>

ManagedCubemap(images) == [tag |-> "ManagedCubemap", images |-> images]

CubemapRequestFiles_OnlyMissing ==
    /\ cube_facesLoaded' = Append(cube_facesLoaded, 0)
    /\ cube_images' = [f \in Faces |-> IF cube_images[f] = 0
                                       THEN Len(cube_facesLoaded) + 1 ELSE cube_images[f]]
    /\ cube_pending' = cube_pending
            \cup {<<Len(cube_facesLoaded) + 1, f>> : f \in {g \in Faces : cube_images[g] = 0}}

\* the effect of CubemapResource._requestFiles()
CubemapRequestFiles ==
    /\ cube_facesLoaded' = Append(cube_facesLoaded, 0)
    /\ cube_images' = [f \in Faces |-> Len(cube_facesLoaded) + 1]
    /\ cube_pending' = cube_pending \cup {<<Len(cube_facesLoaded) + 1, f>> : f \in Faces}

\* ------------------------------------------------------------------------
\* ShaderResource

Text(kind) == [tag |-> "text", shaderType |-> kind]

ShaderRequiresReload_NotRequested(n) == ~InFlight(n)

ShaderRequiresReload(n) ==
    IF InFlight(n) THEN FALSE ELSE ~isLoaded(n)

\* the first argument of _onFilesLoad in the two completion callbacks
ShaderAllDone_Always(n, kind) == TRUE

ShaderAllDone_Never(n, kind) == FALSE

ShaderAllDone(n, kind) ==
    IF kind = "vertex"
    THEN sh_fragmentShaderSource[n] # Null
    ELSE sh_vertexShaderSource[n] # Null

\* the _fallbackShaderName of a shader that declares no fallback
NoFallback == "<none>"

\* the fallback names the declared shaders come with
Fallbacks == {[X |-> "Y", Y |-> "X"], [X |-> "Y", Y |-> NoFallback]}

\* ShaderResource.getFallbackShaderName()
getFallbackShaderName(n) == sh_fallbackShaderName[n]

\* getResource("shaders", name, {allowNullResult: true}) finds a resource
ShaderResolvable(name) == name \in Shaders /\ name \in registered

ShaderFallbackTarget_Chain(n) ==
    LET first == getFallbackShaderName(n)
        second == IF ShaderResolvable(first) THEN getFallbackShaderName(first) ELSE NoFallback
    IN  IF ShaderResolvable(second) THEN second
        ELSE IF ShaderResolvable(first) THEN first
        ELSE n

\* the shader whose resource getFallbackShader(n) returns
ShaderFallbackTarget(n) ==
    IF ShaderResolvable(getFallbackShaderName(n)) THEN getFallbackShaderName(n) ELSE n

ManagedShader(n) ==
    [tag |-> "ManagedShader", name |-> n,
     vertex |-> sh_vertexShaderSource[n], fragment |-> sh_fragmentShaderSource[n]]

\* ------------------------------------------------------------------------
\* ModelResource

\* the largest maxLOD a request names
MaxTarget == 3

\* the number of file requests a model issues in the runs explored
MaxFetches == 3

\* params without a numeric maxLOD; also the null of getMaxLOD and _maxLoadedLOD's initial -1
NoLOD == -1

LODs == 0..MaxTarget

ModelParams == LODs \cup {NoLOD}

\* the file lists a declared model comes with
FileLists == {<<0, 2>>, <<1>>, <<>>}

\* the model objects handed to getOrAddModel
ModelObjects == {[tag |-> "Model", name |-> n, id |-> i] : n \in ModelNames, i \in 1..2}

\* a sequence without its i-th element
Remove(seq, i) == [j \in 1..(Len(seq) - 1) |-> IF j < i THEN seq[j] ELSE seq[j + 1]]

SetMax(S) == CHOOSE x \in S : \A y \in S : y <= x

SetMin(S) == CHOOSE x \in S : \A y \in S : x <= y

FileLODs(n) == {mdl_files[n][i] : i \in 1..Len(mdl_files[n])}

\* ModelResource._getPath(maxLOD) !== null
ModelHasPath(n, lod) == \E i \in 1..Len(mdl_files[n]) : mdl_files[n][i] = lod

\* ModelResource.getMaxLOD()
getMaxLOD(n) == IF FileLODs(n) = {} THEN NoLOD ELSE SetMax(FileLODs(n))

\* the LOD a params value stands for
ModelTarget(n, p) == IF p = NoLOD THEN getMaxLOD(n) ELSE p

\* GenericResource.isRequested(params) of a model
ModelIsRequested(n, p) == InFlight(n) /\ ModelTarget(n, p) <= ModelTarget(n, mdl_params[n])

ModelRequiresReload_AtOrAbove(n, p) ==
    IF ModelIsRequested(n, p) THEN FALSE
    ELSE IF Len(mdl_files[n]) = 0 THEN FALSE
    ELSE ModelTarget(n, p) >= mdl_maxLoadedLOD[n]

ModelRequiresReload_IgnoresLoaded(n, p) ==
    IF ModelIsRequested(n, p) THEN FALSE
    ELSE Len(mdl_files[n]) > 0

\* ModelResource.requiresReload(params), params.maxLOD being p
ModelRequiresReload(n, p) ==
    IF ModelIsRequested(n, p) THEN FALSE
    ELSE IF Len(mdl_files[n]) = 0 THEN FALSE
    ELSE IF p # NoLOD THEN p > mdl_maxLoadedLOD[n]
    ELSE IF getMaxLOD(n) # NoLOD THEN getMaxLOD(n) > mdl_maxLoadedLOD[n]
    ELSE FALSE

ModelFileToRequest_Lowest(n, p) ==
    LET target == ModelTarget(n, p)
        below == {l \in 0..target : ModelHasPath(n, l)}
        above == {l \in (target + 1)..getMaxLOD(n) : ModelHasPath(n, l)}
    IN  IF below # {} THEN SetMin(below)
        ELSE IF Len(mdl_files[n]) > 0 /\ above # {} THEN SetMin(above)
        ELSE NoLOD

ModelFileToRequest_NoUpward(n, p) ==
    LET target == ModelTarget(n, p)
        below == {l \in 0..target : ModelHasPath(n, l)}
    IN  IF below # {} THEN SetMax(below) ELSE NoLOD

\* the LOD of the file _requestFiles(params) requests; NoLOD when it finds none
ModelFileToRequest(n, p) ==
    LET target == ModelTarget(n, p)
        below == {l \in 0..target : ModelHasPath(n, l)}
        above == {l \in (target + 1)..getMaxLOD(n) : ModelHasPath(n, l)}
    IN  IF below # {} THEN SetMax(below)
        ELSE IF Len(mdl_files[n]) > 0 /\ above # {} THEN SetMin(above)
        ELSE NoLOD

\* the Model object _loadData creates from the file of the given LOD
LoadedModel(serial, lod) == [tag |-> "Model", file |-> lod, serial |-> serial]

\* the fields the ModelResource constructor sets for dataJSON.model
SyntheticState_NotReady(n) == [state EXCEPT ![n] = "Unrequested"]

SyntheticState(n) == [state EXCEPT ![n] = "Ready"]

\* ------------------------------------------------------------------------
\* Initial state: the registry has been populated from the resource
\* description file, nothing has been requested

InitWith(registries) ==
    /\ registered \in registries
    /\ state = [r \in Res |-> "Unrequested"]
    /\ tex_params = NoParams
    /\ tex_images = [t \in Types |-> [present |-> FALSE, cells |-> [q \in Qualities |-> "absent"]]]
    /\ tex_loadedImages = 0
    /\ tex_imagesToLoad = 0
    /\ tex_managedTextures = [c \in Cells |-> Null]
    /\ tex_fetches = [c \in Cells |-> 0]
    /\ tex_built = [c \in Cells |-> 0]
    /\ tex_open = <<>>
    /\ cube_images = [f \in Faces |-> 0]
    /\ cube_facesLoaded = <<>>
    /\ cube_pending = {}
    /\ cube_managedCubemap = Null
    /\ cube_built = 0
    /\ sh_vertexShaderSource = [n \in Shaders |-> Null]
    /\ sh_fragmentShaderSource = [n \in Shaders |-> Null]
    /\ sh_pending = [n \in Shaders |-> {}]
    /\ sh_managedShader = [n \in Shaders |-> Null]
    /\ sh_built = [n \in Shaders |-> 0]
    /\ \E fb \in Fallbacks :
          sh_fallbackShaderName = [n \in Shaders |-> IF n \in registered THEN fb[n] ELSE NoFallback]
    /\ mdl_source = [n \in ModelNames |-> Null]
    /\ \E fl \in FileLists :
          mdl_files = [n \in ModelNames |-> IF n \in registered THEN fl ELSE <<>>]
    /\ mdl_params = [n \in ModelNames |-> NoLOD]
    /\ mdl_loadedFiles = [n \in ModelNames |-> 0]
    /\ mdl_filesToLoad = [n \in ModelNames |-> 0]
    /\ mdl_model = [n \in ModelNames |-> Null]
    /\ mdl_maxLoadedLOD = [n \in ModelNames |-> -1]
    /\ mdl_pending = [n \in ModelNames |-> <<>>]
    /\ ret = Undefined
    /\ err = "none"
    /\ res_onReady = {}
    /\ res_ran = {}
    /\ mgr_onReady = FALSE
    /\ scr_phase = "idle"
    /\ scr_scene = {}
    /\ scr_bound = FALSE
    /\ scr_renderLoop = FALSE
    /\ scr_closed = FALSE
    /\ gs_readyState = 1
    /\ gs_model = "null"
    /\ gs_onModelLoad = "noop"
    /\ gs_body = "previous"
    /\ gs_background = FALSE
    /\ gs_attached = FALSE
    /\ gs_stale = FALSE
    /\ gs_status = FALSE
    /\ gs_runs = 0
    /\ gs_ranPartial = FALSE
    /\ mp_missionDescriptor = Undefined
    /\ mp_mission = Undefined
    /\ mp_created = 0
    /\ mp_destroyed = 0
    /\ mp_added = [tag |-> "none"]
    /\ mp_refreshed = [tag |-> "none"]
    /\ mp_settingsCleared = FALSE

Init == InitWith(Registries)

\* what a call that returns nothing and reports nothing leaves behind
Silent == ret' = Undefined /\ err' = "none"

\* ------------------------------------------------------------------------
\* Operations on textures

TexAllDone_FirstImage(loaded) == loaded >= 1

\* this._loadedImages === this._imagesToLoad, as the onload handler passes
\* it to _onFilesLoad
TexAllDone(loaded) == loaded = tex_imagesToLoad

\* ResourceManager.getResource("textures", name, p): schedules the texture
\* for loading when it requires a reload for p
GetTextureResource(p) ==
    /\ "tex" \in registered
    /\ IF TextureRequiresReload(p)
       THEN /\ state' = ScheduledState("tex")
            /\ tex_params' = p
       ELSE UNCHANGED <<state, tex_params>>
    /\ UNCHANGED <<registered, tex_images, tex_loadedImages, tex_imagesToLoad,
                   tex_managedTextures, tex_fetches, tex_built, tex_open>>
    /\ UNCHANGED <<cubeVars, shVars, mdlVars>>
    /\ ret' = ResourceRef("tex")
    /\ err' = "none"

GetResourceTextures == \E p \in TexParams : GetTextureResource(p)

\* GraphicsResourceManager.getTexture(name) called with p as a further
\* argument: the function declares the parameter name only and calls
\* getResource("textures", name)
GetTextureWith(p) == GetTextureResource(NoParams)

\* GraphicsResourceManager.getTexture(name)
GetTexture == \E p \in TexParams : GetTextureWith(p)

\* the part of ResourceManager.requestResourceLoad that concerns the texture
TexRequestLoad ==
    IF state["tex"] = "Requested"
    THEN /\ TextureRequestFiles(tex_params)
         /\ UNCHANGED <<tex_params, tex_loadedImages, tex_managedTextures, tex_built>>
    ELSE UNCHANGED texVars

\* the onload handler of the image of cell <<t, q>>
TexImageLoaded(t, q) ==
    /\ tex_images[t].cells[q] = "loading"
    /\ tex_loadedImages' = tex_loadedImages + 1
    /\ tex_images' = [tex_images EXCEPT ![t].cells[q] = "loaded"]
    /\ state' = OnFilesLoadState("tex", TexAllDone(tex_loadedImages + 1))
    /\ tex_open' = TexOpenAfter(<<t, q>>)
    /\ Drain
    /\ UNCHANGED <<registered, tex_params, tex_imagesToLoad, tex_managedTextures,
                   tex_fetches, tex_built>>
    /\ UNCHANGED <<cubeVars, shVars, mdlVars>>
    /\ Silent

ImageLoaded == \E t \in Types, q \in Qualities : TexImageLoaded(t, q)

\* TextureResource.getManagedTexture(type, quality)
TexGetManagedTexture(t, q) ==
    /\ "tex" \in registered
    /\ IF isReadyToUse("tex") = FALSE
       THEN /\ err' = "not loaded"
            /\ ret' = Null
            /\ UNCHANGED <<tex_managedTextures, tex_built>>
       ELSE IF ~TexNoType(tex_images, t)
       THEN /\ tex_managedTextures' =
                  [tex_managedTextures EXCEPT
                      ![<<t, q>>] = OrElse(@, ManagedTexture(TexImageRef(t, q)))]
            /\ tex_built' =
                  [tex_built EXCEPT
                      ![<<t, q>>] = IF OrElse(tex_managedTextures[<<t, q>>], Undefined) = Undefined
                                    THEN @ + 1 ELSE @]
            /\ ret' = tex_managedTextures'[<<t, q>>]
            /\ err' = "none"
       ELSE /\ err' = "no type"
            /\ ret' = Null
            /\ UNCHANGED <<tex_managedTextures, tex_built>>
    /\ UNCHANGED <<genVars, tex_params, tex_images, tex_loadedImages, tex_imagesToLoad,
                   tex_fetches, tex_open>>
    /\ UNCHANGED <<cubeVars, shVars, mdlVars>>

GetManagedTexture == \E t \in Types, q \in Qualities : TexGetManagedTexture(t, q)

\* ------------------------------------------------------------------------
\* Operations on cubemaps

\* GraphicsResourceManager.getCubemap(name)
GetCubemap ==
    /\ "cube" \in registered
    /\ state' = IF CubemapRequiresReload THEN ScheduledState("cube") ELSE state
    /\ UNCHANGED <<registered, texVars, cubeVars, shVars, mdlVars>>
    /\ ret' = ResourceRef("cube")
    /\ err' = "none"

\* the part of ResourceManager.requestResourceLoad that concerns the cubemap
CubeRequestLoad ==
    IF state["cube"] = "Requested"
    THEN /\ CubemapRequestFiles
         /\ UNCHANGED <<cube_managedCubemap, cube_built>>
    ELSE UNCHANGED cubeVars

\* onImageLoadFunction of the _requestFiles call b, fired for face f
CubeFaceLoaded(b, f) ==
    /\ <<b, f>> \in cube_pending
    /\ cube_pending' = cube_pending \ {<<b, f>>}
    /\ cube_facesLoaded' = [cube_facesLoaded EXCEPT ![b] = @ + 1]
    /\ state' = OnFilesLoadState("cube", CubeAllFacesLoaded(cube_facesLoaded[b] + 1))
    /\ Drain
    /\ UNCHANGED <<registered, cube_images, cube_managedCubemap, cube_built>>
    /\ UNCHANGED <<texVars, shVars, mdlVars>>
    /\ Silent

FaceLoaded == \E b \in 1..Len(cube_facesLoaded), f \in Faces : CubeFaceLoaded(b, f)

\* the number of _requestFiles calls made on the cubemap in the runs explored
MaxCubeCalls == 2

\* CubemapResource._requestFiles() called on the resource, loading or not
RequestFilesOfCubemap ==
    /\ "cube" \in registered
    /\ Len(cube_facesLoaded) < MaxCubeCalls
    /\ CubemapRequestFiles
    /\ UNCHANGED <<genVars, cube_managedCubemap, cube_built>>
    /\ UNCHANGED <<texVars, shVars, mdlVars>>
    /\ Silent

\* !(this.isReadyToUse() === false) in getManagedCubemap
CubeReadyCheck_Skipped == TRUE

CubeReadyCheck == ~(isReadyToUse("cube") = FALSE)

\* CubemapResource.getManagedCubemap()
GetManagedCubemap ==
    /\ "cube" \in registered
    /\ IF ~CubeReadyCheck
       THEN /\ err' = "not loaded"
            /\ ret' = Null
            /\ UNCHANGED <<cube_managedCubemap, cube_built>>
       ELSE /\ cube_managedCubemap' = OrElse(cube_managedCubemap, ManagedCubemap(CubeImageList))
            /\ cube_built' = IF OrElse(cube_managedCubemap, Undefined) = Undefined
                             THEN cube_built + 1 ELSE cube_built
            /\ ret' = cube_managedCubemap'
            /\ err' = "none"
    /\ UNCHANGED <<genVars, cube_images, cube_facesLoaded, cube_pending>>
    /\ UNCHANGED <<texVars, shVars, mdlVars>>

\* ------------------------------------------------------------------------
\* Operations on shaders

\* GraphicsResourceManager.getShader(name)
GetShaderResource(n) ==
    /\ n \in registered
    /\ state' = IF ShaderRequiresReload(n) THEN ScheduledState(n) ELSE state
    /\ UNCHANGED <<registered, texVars, cubeVars, shVars, mdlVars>>
    /\ ret' = ResourceRef(n)
    /\ err' = "none"

GetShader == \E n \in Shaders : GetShaderResource(n)

\* GraphicsResourceManager.getFallbackShader(name): the lookup of name with
\* doNotLoad schedules nothing; the resource it returns comes from a
\* getResource or getShader call, which schedules it when it requires a reload
ShGetFallbackShader(n) ==
    /\ n \in registered
    /\ GetShaderResource(ShaderFallbackTarget(n))

GetFallbackShader == \E n \in Shaders : ShGetFallbackShader(n)

\* what reaches the caller when a call dereferences null
TypeError == [tag |-> "exception", name |-> "TypeError"]

\* getFallbackShader(name) for a name without a shader resource: the lookup
\* getResource("shaders", name, {doNotLoad: true}) finds nothing, whether it
\* reports that or not, and .getFallbackShaderName() is called on its result
ShGetFallbackShaderOfUnknown(n) ==
    /\ n \notin registered
    /\ ret' = TypeError
    /\ err' \in {"none", "not found"}
    /\ UNCHANGED <<genVars, texVars, cubeVars, shVars, mdlVars>>

\* getFallbackShader called with any name
GetFallbackShaderOfAny ==
    \E n \in Shaders : ShGetFallbackShader(n) \/ ShGetFallbackShaderOfUnknown(n)

\* the part of ResourceManager.requestResourceLoad that concerns the shaders:
\* ShaderResource._requestFiles() of every scheduled shader
ShaderRequestLoad ==
    /\ sh_pending' = [n \in Shaders |->
                         IF state[n] = "Requested"
                         THEN sh_pending[n] \cup {"vertex", "fragment"}
                         ELSE sh_pending[n]]
    /\ UNCHANGED <<sh_vertexShaderSource, sh_fragmentShaderSource, sh_managedShader, sh_built,
                   sh_fallbackShaderName>>

\* the completion callback of the vertex or fragment text request of shader n
ShaderTextLoaded(n, kind) ==
    /\ kind \in sh_pending[n]
    /\ sh_pending' = [sh_pending EXCEPT ![n] = @ \ {kind}]
    /\ state' = OnFilesLoadState(n, ShaderAllDone(n, kind))
    /\ Drain
    /\ IF kind = "vertex"
       THEN /\ sh_vertexShaderSource' = [sh_vertexShaderSource EXCEPT ![n] = Text("vertex")]
            /\ UNCHANGED sh_fragmentShaderSource
       ELSE /\ sh_fragmentShaderSource' = [sh_fragmentShaderSource EXCEPT ![n] = Text("fragment")]
            /\ UNCHANGED sh_vertexShaderSource
    /\ UNCHANGED <<registered, sh_managedShader, sh_built, sh_fallbackShaderName>>
    /\ UNCHANGED <<texVars, cubeVars, mdlVars>>
    /\ Silent

TextLoaded == \E n \in Shaders, kind \in {"vertex", "fragment"} : ShaderTextLoaded(n, kind)

\* ShaderResource.getManagedShader()
ShGetManagedShader(n) ==
    /\ n \in registered
    /\ IF isReadyToUse(n) = FALSE
       THEN /\ err' = "not loaded"
            /\ ret' = Null
            /\ UNCHANGED <<sh_managedShader, sh_built>>
       ELSE /\ sh_managedShader' = [sh_managedShader EXCEPT ![n] = OrElse(@, ManagedShader(n))]
            /\ sh_built' = [sh_built EXCEPT
                               ![n] = IF OrElse(sh_managedShader[n], Undefined) = Undefined
                                      THEN @ + 1 ELSE @]
            /\ ret' = sh_managedShader'[n]
            /\ err' = "none"
    /\ UNCHANGED <<genVars, sh_vertexShaderSource, sh_fragmentShaderSource, sh_pending,
                   sh_fallbackShaderName>>
    /\ UNCHANGED <<texVars, cubeVars, mdlVars>>

GetManagedShader == \E n \in Shaders : ShGetManagedShader(n)

\* ------------------------------------------------------------------------
\* Operations on models

\* ResourceManager.getResource("models", name, params), params.maxLOD being p
GetModelResource(n, p) ==
    /\ n \in registered
    /\ mdl_filesToLoad[n] < MaxFetches
    /\ IF ModelRequiresReload(n, p)
       THEN /\ state' = ScheduledState(n)
            /\ mdl_params' = [mdl_params EXCEPT ![n] = p]
       ELSE UNCHANGED <<state, mdl_params>>
    /\ UNCHANGED <<registered, mdl_source, mdl_files, mdl_loadedFiles, mdl_filesToLoad,
                   mdl_model, mdl_maxLoadedLOD, mdl_pending>>
    /\ UNCHANGED <<texVars, cubeVars, shVars>>
    /\ ret' = ResourceRef(n)
    /\ err' = "none"

\* GraphicsResourceManager.getModel(name, params)
GetModel == \E n \in ModelNames, p \in ModelParams : GetModelResource(n, p)

\* getResource("models", name, {allowNullResult: true}) finds a resource
ModelRegistered_Never(name) == FALSE

ModelRegistered(name) == name \in registered

\* GraphicsResourceManager.getOrAddModel(model)
GetOrAddModelOf(m) ==
    IF ModelRegistered(m.name)
    THEN GetModelResource(m.name, NoLOD)
    ELSE /\ registered' = registered \cup {m.name}
         /\ state' = SyntheticState(m.name)
         /\ mdl_source' = [mdl_source EXCEPT ![m.name] = m]
         /\ mdl_model' = [mdl_model EXCEPT ![m.name] = m]
         /\ mdl_files' = [mdl_files EXCEPT ![m.name] = <<>>]
         /\ UNCHANGED <<mdl_params, mdl_loadedFiles, mdl_filesToLoad, mdl_maxLoadedLOD,
                        mdl_pending>>
         /\ UNCHANGED <<texVars, cubeVars, shVars>>
         /\ ret' = ResourceRef(m.name)
         /\ err' = "none"

GetOrAddModel == \E m \in ModelObjects : GetOrAddModelOf(m)

\* the part of ResourceManager.requestResourceLoad that concerns the models:
\* ModelResource._requestFiles(params) of every scheduled model
ModelRequestLoad ==
    LET lod(n) == ModelFileToRequest(n, mdl_params[n])
        fetches(n) == state[n] = "Requested" /\ lod(n) # NoLOD
    IN  /\ mdl_filesToLoad' = [n \in ModelNames |->
                                  IF fetches(n) THEN mdl_filesToLoad[n] + 1 ELSE mdl_filesToLoad[n]]
        /\ mdl_pending' = [n \in ModelNames |->
                              IF fetches(n)
                              THEN Append(mdl_pending[n], [params |-> mdl_params[n], lod |-> lod(n)])
                              ELSE mdl_pending[n]]
        /\ UNCHANGED <<mdl_source, mdl_files, mdl_params, mdl_loadedFiles, mdl_model,
                       mdl_maxLoadedLOD>>

\* the error requestResourceLoad reports: _requestFiles of a model found no file
ModelRequestError ==
    IF \E n \in ModelNames :
          state[n] = "Requested" /\ ModelFileToRequest(n, mdl_params[n]) = NoLOD
    THEN "no files"
    ELSE "none"

\* _requestFiles has reached its showError line: neither scan has found a file
ModelNoFileFound_Never(lod) == FALSE

ModelNoFileFound(lod) == lod = NoLOD

\* ModelResource._requestFiles(params) invoked on model n, params.maxLOD being p
ModelRequestFiles(n, p) ==
    LET lod == ModelFileToRequest(n, p)
    IN  /\ n \in registered
        /\ mdl_source[n] = Null
        /\ mdl_filesToLoad[n] < MaxFetches
        /\ IF ModelNoFileFound(lod)
           THEN /\ err' = "no files"
                /\ UNCHANGED <<mdl_filesToLoad, mdl_pending>>
           ELSE /\ err' = "none"
                /\ mdl_filesToLoad' = [mdl_filesToLoad EXCEPT ![n] = @ + 1]
                /\ mdl_pending' = [mdl_pending EXCEPT
                                       ![n] = Append(@, [params |-> p, lod |-> lod])]
        /\ ret' = Undefined
        /\ UNCHANGED <<genVars, mdl_source, mdl_files, mdl_params, mdl_loadedFiles, mdl_model,
                       mdl_maxLoadedLOD>>
        /\ UNCHANGED <<texVars, cubeVars, shVars>>

RequestFilesOfModel == \E n \in ModelNames, p \in ModelParams : ModelRequestFiles(n, p)

\* the completion callback of a text request _requestFile(lod) issued for model n
ModelFileLoaded(n, i) ==
    /\ i \in 1..Len(mdl_pending[n])
    /\ mdl_pending' = [mdl_pending EXCEPT ![n] = Remove(@, i)]
    /\ mdl_loadedFiles' = [mdl_loadedFiles EXCEPT ![n] = @ + 1]
    /\ mdl_model' = [mdl_model EXCEPT
                         ![n] = LoadedModel(mdl_loadedFiles[n] + 1, mdl_pending[n][i].lod)]
    /\ mdl_maxLoadedLOD' = [mdl_maxLoadedLOD EXCEPT ![n] = mdl_pending[n][i].lod]
    /\ state' = OnFilesLoadState(n, mdl_filesToLoad[n] = mdl_loadedFiles[n] + 1)
    /\ Drain
    /\ UNCHANGED <<registered, mdl_source, mdl_files, mdl_params, mdl_filesToLoad>>
    /\ UNCHANGED <<texVars, cubeVars, shVars>>
    /\ Silent

FileLoaded == \E n \in ModelNames, i \in 1..MaxFetches : ModelFileLoaded(n, i)

\* ModelResource.getEgomModel()
MdlGetEgomModel(n) ==
    /\ n \in registered
    /\ IF isReadyToUse(n) = FALSE
       THEN /\ err' = "not loaded"
            /\ ret' = Null
       ELSE /\ ret' = mdl_model[n]
            /\ err' = "none"
    /\ UNCHANGED <<genVars, texVars, cubeVars, shVars, mdlVars>>

GetEgomModel == \E n \in ModelNames : MdlGetEgomModel(n)

\* ------------------------------------------------------------------------
\* ResourceManager.requestResourceLoad(): requests the files of every
\* scheduled resource
RequestResourceLoad ==
    /\ state' = LoadingState
    /\ TexRequestLoad
    /\ CubeRequestLoad
    /\ ShaderRequestLoad
    /\ ModelRequestLoad
    /\ UNCHANGED registered
    /\ ret' = Undefined
    /\ err' = ModelRequestError

\* a call that registers no callback and is not made by the battle screen
Quiet == UNCHANGED <<cbVars, scrVars, uiVars>>

\* GenericResource.executeWhenReady(callback) on resource r: the callback
\* runs at once when r is ready and is queued on r otherwise
ResourceExecuteWhenReady(r) ==
    /\ r \in registered
    /\ r \notin res_onReady \cup res_ran
    /\ IF isReadyToUse(r)
       THEN /\ res_ran' = res_ran \cup {r}
            /\ UNCHANGED res_onReady
       ELSE /\ res_onReady' = res_onReady \cup {r}
            /\ UNCHANGED res_ran
    /\ UNCHANGED <<genVars, texVars, cubeVars, shVars, mdlVars, mgr_onReady, scrVars, uiVars>>
    /\ Silent

ExecuteWhenReady == \E r \in Res : ResourceExecuteWhenReady(r)

\* ResourceManager.executeWhenReady(continuation): the continuation runs at
\* once when no resource is outstanding and is kept by the manager otherwise
ManagerExecuteWhenReady ==
    IF ManagerReady(state)
    THEN /\ BattleContinuation
         /\ UNCHANGED mgr_onReady
    ELSE /\ mgr_onReady' = TRUE
         /\ UNCHANGED <<scr_bound, scr_renderLoop>>

\* ------------------------------------------------------------------------
\* BattleScreen.startNewBattle: the onLoad handler of the level, taken one
\* statement group at a time; it runs to completion, so no completion
\* callback runs between its steps

\* the handler is entered and creates the scene
BattleOnLoad ==
    /\ scr_phase = "idle"
    /\ scr_phase' = "building"
    /\ UNCHANGED <<genVars, texVars, cubeVars, shVars, mdlVars, cbVars,
                   scr_scene, scr_bound, scr_renderLoop, uiVars>>
    /\ Silent

\* test_level.buildScene(scene) asks the manager for the resources of the scene
BattleBuildScene ==
    /\ scr_phase = "building"
    /\ \/ GetTexture
       \/ GetCubemap
       \/ GetShader
       \/ GetModel
    /\ Quiet

BattleRegister_CallsDirectly ==
    /\ BattleContinuation
    /\ UNCHANGED mgr_onReady

\* resourceManager.executeWhenReady(function () {...}) in the handler
BattleRegister == ManagerExecuteWhenReady

BattleRegisterContinuation ==
    /\ scr_phase = "building"
    /\ scr_phase' = "registered"
    /\ scr_scene' = {r \in registered : state[r] = "Requested"}
    /\ BattleRegister
    /\ UNCHANGED <<genVars, texVars, cubeVars, shVars, mdlVars, res_onReady, res_ran, uiVars>>
    /\ Silent

\* resourceManager.requestResourceLoad() in the handler, which then returns
BattleRequestLoad ==
    /\ scr_phase = "registered"
    /\ scr_phase' = "started"
    /\ RequestResourceLoad
    /\ UNCHANGED <<cbVars, scr_scene, scr_bound, scr_renderLoop, uiVars>>

\* a completion callback of a fetch, run after the handler has returned
BattleCompletion ==
    /\ scr_phase = "started"
    /\ \/ ImageLoaded
       \/ FaceLoaded
       \/ TextLoaded
       \/ FileLoaded

\* ------------------------------------------------------------------------
\* GameScreen: the screen object whose constructor has sent the request for
\* its HTML file

\* the resources, callbacks and battle are left alone
ScreenOnly == UNCHANGED <<genVars, texVars, cubeVars, shVars, mdlVars, cbVars,
                          scr_phase, scr_scene, scr_bound, mpVars>>

\* responseText as the request's readyState goes from headers received to done
ResponseText(readyState) ==
    CASE readyState = 2 -> "empty"
      [] readyState = 3 -> "partial"
      [] readyState = 4 -> "complete"

\* document.getElementById("status") finds the element: the page holds the
\* complete structure of the screen
HasStatusElement(content) == content = "complete"

\* buildPageFunction: document.body = self._model.body.cloneNode(true);
\* self._initializeComponents()
BuildPageFunction(model) ==
    /\ gs_body' = model
    /\ gs_attached' = FALSE
    /\ gs_stale' = FALSE
    /\ gs_status' = HasStatusElement(model)
    /\ UNCHANGED gs_background

\* superimposeOnPageFunction: a background and a container holding the
\* model's body are appended to document.body; self._initializeComponents()
SuperimposeOnPageFunction(model) ==
    /\ gs_background' = TRUE
    /\ gs_attached' = TRUE
    /\ gs_stale' = (gs_stale \/ gs_attached)
    /\ gs_status' = (HasStatusElement(model) \/ HasStatusElement(gs_body))
    /\ UNCHANGED gs_body

\* this._model !== null
ModelBuilt == gs_model # "null"

\* GameScreen.buildPage()
BuildPage ==
    /\ IF ModelBuilt
       THEN /\ BuildPageFunction(gs_model)
            /\ gs_ranPartial' = (gs_ranPartial \/ gs_model # "complete")
            /\ UNCHANGED gs_onModelLoad
       ELSE /\ gs_onModelLoad' = "buildPage"
            /\ UNCHANGED <<gs_body, gs_attached, gs_stale, gs_status, gs_background,
                           gs_ranPartial>>
    /\ UNCHANGED <<scr_closed, scr_renderLoop, gs_readyState, gs_model, gs_runs>>
    /\ ScreenOnly
    /\ Silent

\* GameScreen.superimposeOnPage(color, opacity)
SuperimposeOnPage ==
    /\ IF ModelBuilt
       THEN /\ SuperimposeOnPageFunction(gs_model)
            /\ gs_ranPartial' = (gs_ranPartial \/ gs_model # "complete")
            /\ UNCHANGED gs_onModelLoad
       ELSE /\ gs_onModelLoad' = "superimpose"
            /\ UNCHANGED <<gs_body, gs_attached, gs_stale, gs_status, gs_background,
                           gs_ranPartial>>
    /\ UNCHANGED <<scr_closed, scr_renderLoop, gs_readyState, gs_model, gs_runs>>
    /\ ScreenOnly
    /\ Silent

\* request.onreadystatechange of requestModelLoad, called at every change
\* of the request's readyState: it builds the model from the response text
\* received so far and calls _onModelLoad
ReadyStateChange ==
    /\ gs_readyState < 4
    /\ gs_readyState' = gs_readyState + 1
    /\ gs_model' = ResponseText(gs_readyState + 1)
    /\ CASE gs_onModelLoad = "buildPage" -> BuildPageFunction(gs_model')
         [] gs_onModelLoad = "superimpose" -> SuperimposeOnPageFunction(gs_model')
         [] OTHER -> UNCHANGED <<gs_body, gs_attached, gs_stale, gs_status, gs_background>>
    /\ gs_runs' = IF gs_onModelLoad = "noop" THEN gs_runs ELSE gs_runs + 1
    /\ gs_ranPartial' = (gs_ranPartial \/ (gs_onModelLoad # "noop" /\ gs_model' # "complete"))
    /\ UNCHANGED <<scr_closed, scr_renderLoop, gs_onModelLoad>>
    /\ ScreenOnly
    /\ Silent

\* GameScreenWithCanvases.closePage(): GameScreen.closePage nulls the status
\* component, stopRenderLoop clears the interval
ClosePageEffect ==
    /\ gs_status' = FALSE
    /\ scr_renderLoop' = FALSE
    /\ scr_closed' = TRUE

ClosePage ==
    /\ scr_phase \in {"idle", "started"}
    /\ ClosePageEffect
    /\ UNCHANGED <<gs_readyState, gs_model, gs_onModelLoad, gs_body, gs_background,
                   gs_attached, gs_stale, gs_runs, gs_ranPartial>>
    /\ ScreenOnly
    /\ Silent

\* GameScreen.isSuperimposed()
isSuperimposed == gs_background

\* what document.body.removeChild(node) throws for a node that is not a child
\* of document.body
NotFoundError == [tag |-> "exception", name |-> "NotFoundError"]

\* GameScreen.closeSuperimposedPage(): once document.body has been replaced,
\* the background and its container are children of the former body, and
\* document.body.removeChild throws before anything is changed
CloseSuperimposedPage ==
    /\ scr_phase \in {"idle", "started"}
    /\ IF ~isSuperimposed
       THEN /\ err' = "not superimposed"
            /\ ret' = Undefined
            /\ UNCHANGED <<gs_background, gs_attached, gs_status, scr_renderLoop, scr_closed>>
       ELSE IF ~gs_attached
       THEN /\ err' = "none"
            /\ ret' = NotFoundError
            /\ UNCHANGED <<gs_background, gs_attached, gs_status, scr_renderLoop, scr_closed>>
       ELSE /\ gs_attached' = FALSE
            /\ gs_background' = FALSE
            /\ ClosePageEffect
            /\ Silent
    /\ UNCHANGED <<gs_readyState, gs_model, gs_onModelLoad, gs_body, gs_stale, gs_runs,
                   gs_ranPartial>>
    /\ ScreenOnly

\* ------------------------------------------------------------------------
\* Mission preview (editor): refresh, and the _clear and _load functions the
\* preview context calls

\* the number of missions created in the runs explored
MaxMissions == 2

\* the mission descriptors the editor hands to refresh
Descriptors == {[tag |-> "MissionDescriptor", id |-> d] : d \in {"d1", "d2"}}

\* Editor~RefreshParams objects; a property that is not given reads as false
ParamsObjects ==
    {[tag |-> "params", preserve |-> a, reload |-> b, clearScene |-> c] :
        a \in BOOLEAN, b \in BOOLEAN, c \in BOOLEAN}

\* the params argument: an object, or absent
RefreshParams == ParamsObjects \cup {Undefined}

\* params = params || {}
OrEmpty(p) ==
    IF p = Undefined
    THEN [tag |-> "params", preserve |-> FALSE, reload |-> FALSE, clearScene |-> FALSE]
    ELSE p

\* the object literal {preserve: true, reload: true} of refresh
PreserveAndReload ==
    [tag |-> "params", preserve |-> TRUE, reload |-> TRUE, clearScene |-> FALSE]

\* the mission _missionDescriptor.createMission(DIFFICULTY) returns
Mission(serial, descriptor) ==
    [tag |-> "Mission", descriptor |-> descriptor, serial |-> serial]

\* if (_mission): neither undefined nor null
IsMission(m) == m.tag = "Mission"

\* the model's other parts are left alone
PreviewOnly == UNCHANGED <<genVars, texVars, cubeVars, shVars, mdlVars, cbVars, scrVars, gsVars>>

\* refresh(elements, missionDescriptor, params)
MpRefresh(d, p) ==
    LET sameClass == mp_missionDescriptor = d
    IN  /\ mp_missionDescriptor' = d
        /\ IF sameClass
           THEN /\ mp_refreshed' = IF p = Undefined THEN PreserveAndReload ELSE p
                /\ mp_settingsCleared' = FALSE
           ELSE /\ mp_refreshed' = p
                /\ mp_settingsCleared' = TRUE
        /\ UNCHANGED <<mp_mission, mp_created, mp_destroyed, mp_added>>
        /\ PreviewOnly
        /\ Silent

Refresh == \E d \in Descriptors, p \in RefreshParams : MpRefresh(d, p)

\* _clear()
Clear ==
    /\ IF IsMission(mp_mission)
       THEN /\ mp_destroyed' = mp_destroyed + 1
            /\ mp_mission' = Null
       ELSE UNCHANGED <<mp_destroyed, mp_mission>>
    /\ UNCHANGED <<mp_missionDescriptor, mp_created, mp_added, mp_refreshed, mp_settingsCleared>>
    /\ PreviewOnly
    /\ Silent

ShouldReload_NotPreserved(params) == ~params.preserve

\* shouldReload = !params.preserve || params.reload
ShouldReload(params) == ~params.preserve \/ params.reload

\* _load(params): createMission is called on _missionDescriptor and
\* addToScene on _mission, whatever they hold
MpLoad(p) ==
    LET params == OrEmpty(p)
        shouldReload == ShouldReload(params)
        noDescriptor == shouldReload /\ mp_missionDescriptor = Undefined
        mission == IF shouldReload
                   THEN Mission(mp_created + 1, mp_missionDescriptor)
                   ELSE mp_mission
    IN  /\ shouldReload => mp_created < MaxMissions
        /\ IF ~(params.clearScene \/ shouldReload)
           THEN /\ UNCHANGED <<mp_mission, mp_created, mp_added>>
                /\ Silent
           ELSE IF noDescriptor
           THEN /\ UNCHANGED <<mp_mission, mp_created, mp_added>>
                /\ ret' = TypeError
                /\ err' = "none"
           ELSE /\ mp_mission' = mission
                /\ mp_created' = IF shouldReload THEN mp_created + 1 ELSE mp_created
                /\ mp_added' = mission
                /\ ret' = IF IsMission(mission) THEN Undefined ELSE TypeError
                /\ err' = "none"
        /\ UNCHANGED <<mp_missionDescriptor, mp_destroyed, mp_refreshed, mp_settingsCleared>>
        /\ PreviewOnly

Load == \E p \in RefreshParams : MpLoad(p)

\* the requests, completions and uses of the resources declared in the
\* resource description file
Next ==
    \/ GetResourceTextures /\ Quiet
    \/ GetTexture /\ Quiet
    \/ ImageLoaded
    \/ GetManagedTexture /\ Quiet
    \/ GetCubemap /\ Quiet
    \/ FaceLoaded
    \/ GetManagedCubemap /\ Quiet
    \/ GetShader /\ Quiet
    \/ GetFallbackShader /\ Quiet
    \/ TextLoaded
    \/ GetManagedShader /\ Quiet
    \/ GetModel /\ Quiet
    \/ FileLoaded
    \/ GetEgomModel /\ Quiet
    \/ RequestResourceLoad /\ Quiet

Spec == Init /\ [][Next]_vars

\* the "models" category, with models added at run time: the registry holds
\* the declared model or no model at all
InitModels == InitWith({{"ship"}, {}})

NextModels ==
    \/ GetModel /\ Quiet
    \/ GetOrAddModel /\ Quiet
    \/ FileLoaded
    \/ GetEgomModel /\ Quiet
    \/ RequestResourceLoad /\ Quiet

SpecModels == InitModels /\ [][NextModels]_vars

\* ModelResource._requestFiles applied to a declared model, whatever its file
\* list, with the completions of the requests it issues
InitRequestFiles == InitWith({{"ship"}})

NextRequestFiles ==
    \/ RequestFilesOfModel /\ Quiet
    \/ FileLoaded
    \/ GetEgomModel /\ Quiet

SpecRequestFiles == InitRequestFiles /\ [][NextRequestFiles]_vars

\* CubemapResource._requestFiles applied to a declared cubemap any number of
\* times, with the completions of the face images it requests
InitCubemapFiles == InitWith({{"cube"}})

NextCubemapFiles ==
    \/ RequestFilesOfCubemap /\ Quiet
    \/ FaceLoaded

SpecCubemapFiles == InitCubemapFiles /\ [][NextCubemapFiles]_vars

\* requests with callbacks deferred on the resources, every fetch that has
\* been issued completing after a finite time
NextLoad ==
    \/ GetResourceTextures /\ Quiet
    \/ GetCubemap /\ Quiet
    \/ GetShader /\ Quiet
    \/ GetModel /\ Quiet
    \/ RequestResourceLoad /\ Quiet
    \/ ExecuteWhenReady
    \/ ImageLoaded
    \/ FaceLoaded
    \/ TextLoaded
    \/ FileLoaded

FetchesComplete ==
    /\ \A t \in Types, q \in Qualities : WF_vars(TexImageLoaded(t, q))
    /\ \A b \in 1..MaxCubeCalls, f \in Faces : WF_vars(CubeFaceLoaded(b, f))
    /\ \A n \in Shaders, kind \in {"vertex", "fragment"} : WF_vars(ShaderTextLoaded(n, kind))
    /\ \A n \in ModelNames : WF_vars(ModelFileLoaded(n, 1))

SpecLoad == Init /\ [][NextLoad]_vars /\ FetchesComplete

\* the "shaders" category asked for names with and without a resource
InitShaders == InitWith({{"X"}, {"X", "Y"}, {}})

NextShaders ==
    \/ GetShader /\ Quiet
    \/ GetFallbackShaderOfAny /\ Quiet
    \/ TextLoaded
    \/ GetManagedShader /\ Quiet
    \/ RequestResourceLoad /\ Quiet

SpecShaders == InitShaders /\ [][NextShaders]_vars

\* the page life cycle of a screen: its HTML file arrives while the screen
\* is built, superimposed and closed
NextScreen ==
    \/ BuildPage
    \/ SuperimposeOnPage
    \/ ReadyStateChange
    \/ ClosePage
    \/ CloseSuperimposedPage

InitScreen == InitWith({{}})

SpecScreen == InitScreen /\ [][NextScreen]_vars

\* the mission preview of the editor: refreshes with the same or another
\* descriptor, and the calls of _clear and _load they lead to
InitPreview == InitWith({{}})

NextPreview ==
    \/ Refresh
    \/ Clear
    \/ Load

SpecPreview == InitPreview /\ [][NextPreview]_vars

\* a battle started on the battle screen: the scene's resources are
\* requested, the continuation is registered, the load is started and the
\* fetches complete in any order
NextBattle ==
    \/ BattleOnLoad
    \/ BattleBuildScene
    \/ BattleRegisterContinuation
    \/ BattleRequestLoad
    \/ BattleCompletion

SpecBattle == Init /\ [][NextBattle]_vars

\* a battle started on the battle screen, whose page may be closed at any
\* time after startNewBattle has returned
BattleClosePage ==
    /\ scr_phase = "started"
    /\ ClosePage

NextBattleClose ==
    \/ NextBattle
    \/ BattleClosePage

SpecBattleClose == Init /\ [][NextBattleClose]_vars

\* ------------------------------------------------------------------------
\* Properties

TexStatus(c) == tex_images[c[1]].cells[c[2]]

\* C1: over any sequence of texture requests and image completions, the src
\* of the image of a (type, quality) cell is set at most once: a cell that is
\* loaded or loading is not fetched again.
C1_AtMostOneFetchPerCell == \A c \in Cells : tex_fetches[c] <= 1

\* a request that covers an already loaded cell has had its files requested
C1_Witness ==
    \E c \in Cells, d \in Cells :
        /\ TexStatus(c) = "loaded"
        /\ TexStatus(d) = "loading"
        /\ state["tex"] = "Loading"
        /\ {c, d} \subseteq RequestedCells(tex_params)
        /\ tex_fetches[c] = 1

\* C2: requiresReload(params) is true exactly when the texture is not in
\* flight for an equal-or-larger request and some cell of the requested
\* cross-product has no image.
C2_RequiresReloadIffCellMissing ==
    \A p \in TexParams :
        TextureRequiresReload(p) <=>
            /\ ~TexIsRequested(p)
            /\ \E c \in RequestedCells(p) : TexStatus(c) = "absent"

\* a _requestFiles call whose params cover p still waits for a completion
TexBatchOpen(p) == \E i \in 1..Len(tex_open) : TexCovers(tex_open[i].params, p)

CubeBatchOpen == cube_pending # {}

ShaderBatchOpen(n) == sh_pending[n] # {}

ModelBatchOpen(n, p) ==
    \E i \in 1..Len(mdl_pending[n]) :
        ModelTarget(n, p) <= ModelTarget(n, mdl_pending[n][i].params)

C3_NoReloadInFlight ==
    /\ \A p \in TexParams : TexBatchOpen(p) => ~TextureRequiresReload(p)
    /\ CubeBatchOpen => ~CubemapRequiresReload
    /\ \A n \in Shaders : ShaderBatchOpen(n) => ~ShaderRequiresReload(n)
    /\ \A n \in ModelNames, p \in ModelParams :
          ModelBatchOpen(n, p) => ~ModelRequiresReload(n, p)

resourceVars == <<genVars, texVars, cubeVars, shVars, mdlVars>>

C3_QueryChangesNothing ==
    /\ \A p \in TexParams :
          TexBatchOpen(p) /\ GetTextureResource(p) => UNCHANGED resourceVars
    /\ CubeBatchOpen /\ GetCubemap => UNCHANGED resourceVars
    /\ \A n \in Shaders :
          ShaderBatchOpen(n) /\ GetShaderResource(n) => UNCHANGED resourceVars
    /\ \A n \in ModelNames, p \in ModelParams :
          ModelBatchOpen(n, p) /\ GetModelResource(n, p) => UNCHANGED resourceVars

C3_NoSecondBatch ==
    RequestResourceLoad =>
        /\ state["tex"] = "Requested" => ~TexBatchOpen(tex_params)
        /\ state["cube"] = "Requested" => ~CubeBatchOpen
        /\ \A n \in Shaders : state[n] = "Requested" => ~ShaderBatchOpen(n)
        /\ \A n \in ModelNames :
              state[n] = "Requested" => ~ModelBatchOpen(n, mdl_params[n])

\* C3: for every resource kind, while a batch of fetches that covers a
\* request is waiting for a completion, requiresReload is false for that
\* request, asking for the resource again changes nothing, and
\* requestResourceLoad issues no second batch for it.
C3_NoReloadWhileInFlight ==
    /\ []C3_NoReloadInFlight
    /\ [][C3_QueryChangesNothing /\ C3_NoSecondBatch]_vars

\* the cubemap has been asked for again after some of its faces have loaded
C3_Witness ==
    /\ CubeBatchOpen
    /\ Cardinality(cube_pending) < NumFaces
    /\ ret = ResourceRef("cube")

\* the Image of face f exists and its onload has fired
CubeFaceComplete(f) == cube_images[f] # 0 /\ <<cube_images[f], f>> \notin cube_pending

\* C4: the cubemap is ready to use exactly when all six face images have
\* completed loading, that is when the facesLoaded counter of its batch has
\* reached six; with five or fewer completions it is not ready.
C4_ReadyIffSixFaces ==
    /\ isReadyToUse("cube") <=> \A f \in Faces : CubeFaceComplete(f)
    /\ isReadyToUse("cube") <=>
          \E b \in 1..Len(cube_facesLoaded) : cube_facesLoaded[b] = Cardinality(Faces)
    /\ \A b \in 1..Len(cube_facesLoaded) :
          cube_facesLoaded[b] = Cardinality({f \in Faces : <<b, f>> \notin cube_pending})

\* the sixth completion has arrived
C4_Witness ==
    /\ isReadyToUse("cube")
    /\ cube_facesLoaded = <<6>>
    /\ cube_pending = {}

ShaderHasBoth(n) == sh_vertexShaderSource[n] # Null /\ sh_fragmentShaderSource[n] # Null

C5_Completion ==
    \A n \in Shaders, kind \in {"vertex", "fragment"} :
        ShaderTextLoaded(n, kind) =>
            /\ sh_pending[n] = {"vertex", "fragment"} => ~isReadyToUse(n)'
            /\ sh_pending[n] = {kind} => ~isReadyToUse(n) /\ isReadyToUse(n)'
            /\ isReadyToUse(n)' <=> ShaderHasBoth(n)'

\* C5: in both arrival orders the first text completion of a shader does not
\* set it to ready and the second one does; a ready shader has its vertex
\* and its fragment source.
C5_ReadyOnSecondText ==
    /\ [](\A n \in Shaders : isReadyToUse(n) => ShaderHasBoth(n))
    /\ [][C5_Completion]_vars

\* one shader is ready, the fragment text of the other arrived first
C5_Witness ==
    /\ isReadyToUse("Y") /\ ShaderHasBoth("Y")
    /\ sh_fragmentShaderSource["X"] # Null
    /\ sh_vertexShaderSource["X"] = Null
    /\ ~isReadyToUse("X")

C6_Now ==
    /\ CubemapRequiresReload <=>
          /\ state["cube"] # "Requested"
          /\ cube_pending = {}
          /\ ~\A f \in Faces : CubeFaceComplete(f)
    /\ \A n \in Shaders :
          ShaderRequiresReload(n) <=>
              /\ state[n] # "Requested"
              /\ sh_pending[n] = {}
              /\ ~ShaderHasBoth(n)

C6_Forever ==
    /\ isLoaded("cube") => isLoaded("cube")' /\ ~CubemapRequiresReload'
    /\ \A n \in Shaders : isLoaded(n) => isLoaded(n)' /\ ~ShaderRequiresReload(n)'

\* C6: requiresReload() of a cubemap or shader is true exactly when the
\* resource is neither scheduled or loading nor loaded; once the resource
\* has loaded it stays loaded and requiresReload() stays false.
C6_ReloadIffNotRequestedNotLoaded == []C6_Now /\ [][C6_Forever]_vars

\* a loaded shader has been asked for again
C6_Witness ==
    /\ isLoaded("X")
    /\ ret = ResourceRef("X")
    /\ ~ShaderRequiresReload("X")

C7_Fails == err' = "not loaded" /\ ret' = Null /\ UNCHANGED resourceVars

C7_Succeeds == err' = "none" /\ ret' # Null

C7_Step ==
    /\ \A t \in Types, q \in Qualities :
          TexGetManagedTexture(t, q) =>
              /\ ~isReadyToUse("tex") => C7_Fails
              /\ isReadyToUse("tex") /\ tex_images[t].present => C7_Succeeds
    /\ GetManagedCubemap =>
          /\ ~isReadyToUse("cube") => C7_Fails
          /\ isReadyToUse("cube") => C7_Succeeds
    /\ \A n \in Shaders :
          ShGetManagedShader(n) =>
              /\ ~isReadyToUse(n) => C7_Fails
              /\ isReadyToUse(n) => C7_Succeeds
    /\ \A n \in ModelNames :
          MdlGetEgomModel(n) =>
              /\ ~isReadyToUse(n) => C7_Fails
              /\ isReadyToUse(n) => C7_Succeeds

\* C7: getManagedTexture, getManagedCubemap, getManagedShader and
\* getEgomModel called on a resource that is not ready report an error,
\* return null and leave every field of every resource unchanged; called on
\* a ready resource they return an object.
C7_NotReadyGetFails == [][C7_Step]_vars

\* a getter has failed on a cubemap some of whose faces have loaded
C7_Witness ==
    /\ err = "not loaded"
    /\ ret = Null
    /\ state["cube"] = "Loading"
    /\ Cardinality(cube_pending) = 1

C8_Kept ==
    /\ \A c \in Cells :
          tex_managedTextures[c] # Null => tex_managedTextures'[c] = tex_managedTextures[c]
    /\ cube_managedCubemap # Null => cube_managedCubemap' = cube_managedCubemap
    /\ \A n \in Shaders :
          sh_managedShader[n] # Null => sh_managedShader'[n] = sh_managedShader[n]

C8_Returned ==
    /\ \A t \in Types, q \in Qualities :
          TexGetManagedTexture(t, q) /\ isReadyToUse("tex")
              /\ tex_managedTextures[<<t, q>>] # Null
              => ret' = tex_managedTextures[<<t, q>>]
    /\ GetManagedCubemap /\ isReadyToUse("cube") /\ cube_managedCubemap # Null
          => ret' = cube_managedCubemap
    /\ \A n \in Shaders :
          ShGetManagedShader(n) /\ isReadyToUse(n) /\ sh_managedShader[n] # Null
              => ret' = sh_managedShader[n]

C8_BuiltOnce ==
    /\ \A c \in Cells : tex_built[c] <= 1
    /\ cube_built <= 1
    /\ \A n \in Shaders : sh_built[n] <= 1
    /\ cube_managedCubemap # Null =>
          \A i \in 1..Len(FaceOrder) :
              /\ cube_managedCubemap.images[i] # Undefined
              /\ cube_managedCubemap.images[i].face = FaceOrder[i]

\* C8: the wrapper of a texture cell, of the cubemap and of a shader is
\* constructed at most once, the cubemap's from its faces in the order posX,
\* negX, posY, negY, posZ, negZ; once cached it is what every later get on
\* the ready resource returns, and no later request, completion or get
\* replaces it.
C8_WrapperCachedOnce == []C8_BuiltOnce /\ [][C8_Kept /\ C8_Returned]_vars

\* a cached texture wrapper has been returned after a later request of the
\* texture has loaded the remaining cells, and another cell has its wrapper
C8_Witness ==
    \E c \in Cells, d \in Cells :
        /\ c # d
        /\ tex_managedTextures[c] # Null
        /\ tex_managedTextures[d] # Null
        /\ tex_built[c] = 1
        /\ state["tex"] = "Ready"
        /\ ret = tex_managedTextures[c]
        /\ tex_loadedImages = Cardinality(Cells)

\* C9: on a ready texture getManagedTexture never constructs or caches a
\* wrapper for a cell whose image is absent or has not finished loading:
\* every cached wrapper holds the loaded image of exactly its cell.
C9_WrapperFromLoadedImage ==
    \A c \in Cells :
        tex_managedTextures[c] # Null =>
            tex_managedTextures[c].image =
                [tag |-> "Image", type |-> c[1], quality |-> c[2], complete |-> TRUE]

Synthetic(n) == mdl_source[n] # Null

C10_Now ==
    \A n \in ModelNames :
        Synthetic(n) =>
            /\ n \in registered
            /\ isReadyToUse(n)
            /\ mdl_files[n] = <<>>
            /\ \A p \in ModelParams : ~ModelRequiresReload(n, p)
            /\ mdl_filesToLoad[n] = 0
            /\ mdl_pending[n] = <<>>
            /\ mdl_model[n] = mdl_source[n]

C10_Step ==
    \A n \in ModelNames :
        /\ Synthetic(n) => mdl_source'[n] = mdl_source[n]
        /\ Synthetic(n) /\ MdlGetEgomModel(n) => ret' = mdl_source[n] /\ err' = "none"
        /\ GetOrAddModel /\ n \notin registered /\ n \in registered'
              => Synthetic(n)' /\ isReadyToUse(n)' /\ ret' = ResourceRef(n)

\* C10: a ModelResource constructed from an in-memory model object is ready
\* from its construction on, has an empty file list, never requires a reload
\* whatever the params, never issues a file request, and getEgomModel
\* returns the object it was constructed from.
C10_SyntheticModelAlwaysReady == []C10_Now /\ [][C10_Step]_vars

\* getEgomModel has returned the object of a model added at run time, after
\* a second object of the same name was handed to getOrAddModel
C10_Witness ==
    /\ Synthetic("dyn")
    /\ ret = mdl_source["dyn"]
    /\ mdl_source["dyn"].id = 2
    /\ Synthetic("ship")

\* model n waits to be loaded, or is being loaded, for a request whose target
\* LOD is at least that of p
ModelRequestedFor(n, p) ==
    /\ state[n] \in {"Requested", "Loading"}
    /\ ModelTarget(n, p) <= ModelTarget(n, mdl_params[n])

TiersAtOrBelow(n) == {l \in FileLODs(n) : l <= ModelTarget(n, mdl_params[n])}

TiersAbove(n) == {l \in FileLODs(n) : l > ModelTarget(n, mdl_params[n])}

\* requestResourceLoad has issued exactly one file request for model n, for
\* the file of LOD tier lod
FetchesOnly(n, lod) ==
    /\ mdl_pending'[n] = Append(mdl_pending[n], [params |-> mdl_params[n], lod |-> lod])
    /\ mdl_filesToLoad'[n] = mdl_filesToLoad[n] + 1

C12_Step ==
    \A n \in ModelNames :
        RequestResourceLoad /\ state[n] = "Requested" /\ TiersAtOrBelow(n) # {}
            => /\ \E lod \in TiersAtOrBelow(n) :
                     /\ \A l \in TiersAtOrBelow(n) : l <= lod
                     /\ FetchesOnly(n, lod)
               /\ mdl_params[n] = NoLOD => FetchesOnly(n, getMaxLOD(n))

\* C12: a model request for target maxLOD T issues exactly one file request,
\* for the declared file of the highest LOD tier at or below T when there is
\* one; a request without maxLOD is a request for the highest declared tier.
C12_FetchesHighestAtOrBelow == [][C12_Step]_vars

\* of the files of LOD 0 and 2 the request for maxLOD 1 has fetched that of
\* LOD 0 only
C12_Witness ==
    /\ mdl_files["ship"] = <<0, 2>>
    /\ mdl_pending["ship"] = <<[params |-> 1, lod |-> 0]>>
    /\ mdl_filesToLoad["ship"] = 1
    /\ state["ship"] = "Loading"

C13_Step ==
    \A n \in ModelNames :
        RequestResourceLoad /\ state[n] = "Requested" /\ mdl_files[n] # <<>>
            => /\ Len(mdl_pending'[n]) = Len(mdl_pending[n]) + 1
               /\ mdl_filesToLoad'[n] = mdl_filesToLoad[n] + 1
               /\ err' = "none"
               /\ TiersAtOrBelow(n) = {}
                     => \E lod \in TiersAbove(n) :
                           /\ \A l \in TiersAbove(n) : lod <= l
                           /\ FetchesOnly(n, lod)

\* C13: a request on a model with a non-empty file list issues exactly one
\* file request and reports no error whatever the target maxLOD; when no
\* declared tier is at or below the target it fetches the lowest declared
\* tier above it.
C13_FallsBackToLowestAbove == [][C13_Step]_vars

\* the only file has LOD 1 and the request for maxLOD 0 has fetched it
C13_Witness ==
    /\ mdl_files["ship"] = <<1>>
    /\ mdl_pending["ship"] = <<[params |-> 0, lod |-> 1]>>
    /\ mdl_filesToLoad["ship"] = 1
    /\ err = "none"

C14_Step ==
    \A n \in ModelNames :
        /\ \A i \in 1..Len(mdl_pending[n]) :
              ModelFileLoaded(n, i) /\ mdl_pending'[n] = Remove(mdl_pending[n], i)
                  => mdl_maxLoadedLOD'[n] \in {mdl_pending[n][j].lod : j \in 1..Len(mdl_pending[n])}
        /\ Len(mdl_pending[n]) = 1 /\ ModelFileLoaded(n, 1)
              => mdl_maxLoadedLOD'[n] = mdl_pending[n][1].lod
        /\ \A p \in ModelParams :
              /\ GetModelResource(n, p)
              /\ mdl_loadedFiles[n] > 0
              /\ ModelTarget(n, p) <= mdl_maxLoadedLOD[n]
              => UNCHANGED resourceVars

\* C14: the completion of a model request sets maxLoadedLOD to the tier of
\* the file that was fetched, and a later request whose target maxLOD is at
\* or below maxLoadedLOD changes nothing: no load is scheduled, and
\* maxLoadedLOD, the counters, the load state and the model object stay as
\* they are.
C14_LoadedTierAndNoOp == [][C14_Step]_vars

\* the file of LOD 2 has been loaded and the model has been asked for again
C14_Witness ==
    /\ mdl_files["ship"] = <<0, 2>>
    /\ mdl_maxLoadedLOD["ship"] = 2
    /\ mdl_loadedFiles["ship"] = 1
    /\ mdl_filesToLoad["ship"] = 1
    /\ state["ship"] = "Ready"
    /\ ret = ResourceRef("ship")

\* C15: maxLoadedLOD of a model never decreases: every step leaves it greater
\* than or equal to its previous value.
C15_MaxLoadedLODNeverDecreases ==
    [][\A n \in ModelNames : mdl_maxLoadedLOD'[n] >= mdl_maxLoadedLOD[n]]_vars

\* C16: the model object of a file-backed model keeps its identity over all
\* file completions: it is the object that was created when the first file
\* was loaded, and later files are merged into it.
C16_ModelKeepsIdentity ==
    \A n \in ModelNames :
        mdl_source[n] = Null /\ mdl_model[n] # Null => mdl_model[n].serial = 1

C17_Step ==
    \A n \in ModelNames, p \in ModelParams :
        ModelRequestFiles(n, p)
            /\ {l \in FileLODs(n) : l <= ModelTarget(n, p)} = {}
            /\ {l \in FileLODs(n) : l > ModelTarget(n, p)} = {}
            => /\ err' = "no files"
               /\ UNCHANGED resourceVars

\* C17: a model request that finds no file, neither at or below the target
\* nor above it, reports an error, issues no file request and changes neither
\* the counters nor maxLoadedLOD nor the load state; a model for which no
\* file was ever requested is not ready.
C17_NoFileFoundReportsError ==
    /\ [](\A n \in ModelNames : mdl_filesToLoad[n] = 0 => ~isReadyToUse(n))
    /\ [][C17_Step]_vars

\* _requestFiles has reported that a model without files has nothing to load
C17_Witness ==
    /\ mdl_files["ship"] = <<>>
    /\ err = "no files"
    /\ mdl_filesToLoad["ship"] = 0
    /\ mdl_pending["ship"] = <<>>
    /\ ~isReadyToUse("ship")

\* C18: getTexture passes the caller's params on to the registry's get
\* operation: a call of getTexture with params p is the call
\* getResource("textures", name, p), which checks and schedules the texture
\* for exactly the variants p names.
C18_ParamsPassedThrough ==
    [][\A p \in TexParams : GetTextureWith(p) => GetTextureResource(p)]_vars

C19_Step ==
    \A n \in Shaders :
        ShGetFallbackShader(n) =>
            LET fallback == sh_fallbackShaderName[n]
            IN  IF fallback \in registered
                THEN /\ ret' = ResourceRef(fallback)
                     /\ fallback # n => state'[n] = state[n]
                     /\ \A r \in Res \ {fallback} : state'[r] = state[r]
                     /\ state'[fallback] \in {state[fallback], "Requested"}
                ELSE /\ ret' = ResourceRef(n)
                     /\ GetShaderResource(n)

\* C19: getFallbackShader(X) returns the shader resource named by the
\* fallback X declares when that is a registered shader, without scheduling X
\* and without following the fallback of the fallback; when X declares no
\* fallback or its fallback is not registered it returns X's own resource,
\* obtained as getShader(X) obtains it.
C19_OneLevelFallback == [][C19_Step]_vars

\* getFallbackShader of X has returned and scheduled Y, which declares X as
\* its own fallback; X has not been scheduled
C19_Witness ==
    /\ sh_fallbackShaderName = [X |-> "Y", Y |-> "X"]
    /\ ret = ResourceRef("Y")
    /\ state["Y"] = "Requested"
    /\ state["X"] = "Unrequested"

C20_Step ==
    /\ registered \subseteq registered'
    /\ \A m \in ModelObjects :
          GetOrAddModelOf(m) =>
              /\ ret' = ResourceRef(m.name)
              /\ m.name \in registered'
              /\ m.name \in registered =>
                    /\ registered' = registered
                    /\ mdl_source' = mdl_source
                    /\ mdl_files' = mdl_files
                    /\ mdl_model' = mdl_model
              /\ m.name \notin registered =>
                    /\ registered' = registered \cup {m.name}
                    /\ mdl_source'[m.name] = m

\* C20: every getOrAddModel call returns the resource registered under the
\* name of its model; when a resource of that name, file-backed or built
\* from a model object, is registered already, the call constructs and
\* registers nothing and the registered resource keeps the model object and
\* the files it has; otherwise the call registers one resource built from
\* the model object. No resource is ever removed from the registry.
C20_GetOrAddModelIdempotent == [][C20_Step]_vars

\* getOrAddModel has returned the resource of a model added at run time; the
\* declared model has been scheduled by a getOrAddModel or getModel call and
\* is still file-backed
C20_Witness ==
    /\ registered = {"ship", "dyn"}
    /\ mdl_source["dyn"] # Null
    /\ mdl_source["dyn"].id = 1
    /\ ret = ResourceRef("dyn")
    /\ mdl_source["ship"] = Null
    /\ state["ship"] = "Loading"

\* C25: every cell present in the texture's image map holds an image whose
\* load has completed; no cell is present while its image is being fetched.
C25_PresentCellIsLoaded ==
    \A c \in Cells : ~TexNoImage(tex_images, c[1], c[2]) => TexStatus(c) = "loaded"

\* the cells whose fetch the step issues
TexFetchedInStep == {c \in Cells : tex_fetches'[c] > tex_fetches[c]}

TexLoading == {c \in Cells : TexStatus(c) = "loading"}

C26_Step ==
    /\ tex_fetches' # tex_fetches =>
          /\ tex_imagesToLoad' = tex_imagesToLoad + Cardinality(TexFetchedInStep)
          /\ \A c \in Cells : TexStatus(c)' # "created"
    /\ (tex_loadedImages' # tex_loadedImages /\ tex_loadedImages' = tex_imagesToLoad') =>
          \A c \in Cells : TexStatus(c)' # "created"

\* C26: a texture request counts every new cell of its batch in the
\* expected-count before any fetch of the batch is issued: the step that
\* issues the fetches raises the counter by the number of fetches and leaves
\* no image without its fetch, so no completion sees loaded-count equal to
\* expected-count while a cell of the batch still waits for its fetch.
C26_CountedBeforeFirstFetch == [][C26_Step]_vars

\* one image of a batch of several has completed, the others are outstanding
C26_Witness ==
    /\ Len(tex_open) = 1
    /\ tex_loadedImages = 1
    /\ tex_imagesToLoad >= 3
    /\ Cardinality(TexLoading) = tex_imagesToLoad - 1
    /\ state["tex"] = "Loading"

C27_Step ==
    tex_loadedImages' # tex_loadedImages =>
        /\ tex_loadedImages' = tex_loadedImages + 1
        /\ (state'["tex"] = "Ready") = (TexLoading' = {})
        /\ TexAllDone(tex_loadedImages)' = (TexLoading' = {})

C27_Counters ==
    /\ 0 <= tex_loadedImages
    /\ tex_loadedImages <= tex_imagesToLoad
    /\ tex_imagesToLoad = tex_loadedImages + Cardinality(TexLoading)

\* C27: the texture counters are cumulative: 0 <= loaded-count <=
\* expected-count in every state, and an image completion signals "all done"
\* exactly when no fetch issued by any request call on the texture is still
\* outstanding after it, whatever the calls and the order of completions.
C27_SettlementByCounts == [](C27_Counters) /\ [][C27_Step]_vars

\* a second request call added cells while the first call's fetches were
\* outstanding, and completions have arrived since
C27_Witness ==
    /\ Len(tex_open) = 2
    /\ tex_loadedImages >= 1
    /\ tex_open[1].cells \cap tex_open[2].cells = {}

\* the images of a wrapper have all completed loading
CubeWrapperComplete(w) ==
    \A i \in 1..Len(w.images) : w.images[i] # Undefined /\ w.images[i].complete

C29_Step ==
    cube_built' # cube_built =>
        /\ isReadyToUse("cube")
        /\ Len(cube_managedCubemap'.images) = NumFaces
        /\ CubeWrapperComplete(cube_managedCubemap')
        /\ ret' = cube_managedCubemap'

\* C29: through the manager's operations, the cubemap being requested only
\* when requiresReload() is true, and with completions in any order, a
\* cubemap that is ready to use holds the images of one request only, all six
\* of them completely loaded, and getManagedCubemap builds its wrapper from
\* exactly those images.
C29_ReadyCubemapHoldsLoadedFaces ==
    /\ [](isReadyToUse("cube") =>
            /\ Len(cube_facesLoaded) = 1
            /\ \A f \in Faces : CubeImageRef(f) # Undefined /\ CubeImageRef(f).complete)
    /\ [][C29_Step]_vars

\* getManagedCubemap has built the wrapper of a loaded cubemap
C29_Witness ==
    /\ cube_built = 1
    /\ cube_managedCubemap # Null
    /\ ret = cube_managedCubemap
    /\ CubeWrapperComplete(cube_managedCubemap)

\* C30: whenever requiresReload(params) returns true, _requestFiles(params)
\* issues at least one image fetch, for every params value, an empty types
\* or qualities set included.
C30_ReloadIssuesAFetch ==
    \A p \in TexParams : TextureRequiresReload(p) => TexCellsFetched(p) # {}

\* the face images of call b whose onload has not fired
CubePendingOf(b) == {f \in Faces : <<b, f>> \in cube_pending}

C28_Calls ==
    Len(cube_facesLoaded') # Len(cube_facesLoaded) =>
        /\ Len(cube_facesLoaded') = Len(cube_facesLoaded) + 1
        /\ cube_pending' \ cube_pending = {<<Len(cube_facesLoaded'), f>> : f \in Faces}
        /\ cube_pending \subseteq cube_pending'
        /\ Cardinality(cube_pending') = Cardinality(cube_pending) + NumFaces

C28_Completions ==
    \A b \in 1..Len(cube_facesLoaded) :
        (Len(cube_facesLoaded') = Len(cube_facesLoaded)
         /\ cube_facesLoaded'[b] # cube_facesLoaded[b]) =>
            /\ cube_facesLoaded'[b] = cube_facesLoaded[b] + 1
            /\ \A o \in 1..Len(cube_facesLoaded) :
                  o # b => cube_facesLoaded'[o] = cube_facesLoaded[o]
            /\ IF cube_facesLoaded'[b] = NumFaces
               THEN isReadyToUse("cube")'
               ELSE state' = state

\* C28: every invocation of the cubemap request path issues six face
\* fetches and counts their completions in a counter of its own: a second
\* invocation while the first batch is loading adds six further fetches to
\* the outstanding ones, and each batch signals completion on the sixth
\* completion of its own fetches.
C28_SixFetchesPerInvocation ==
    /\ [](\A b \in 1..Len(cube_facesLoaded) :
            cube_facesLoaded[b] + Cardinality(CubePendingOf(b)) = NumFaces)
    /\ [][C28_Calls /\ C28_Completions]_vars

\* the second batch has completed while the first, issued before it, has not
C28_Witness ==
    /\ Len(cube_facesLoaded) = 2
    /\ cube_facesLoaded[2] = NumFaces
    /\ cube_facesLoaded[1] \in 1..(NumFaces - 1)
    /\ Cardinality(cube_pending) = NumFaces - cube_facesLoaded[1]
    /\ isReadyToUse("cube")

\* a fetch issued for resource r has not completed
FetchPending(r) ==
    CASE r = "tex" -> TexLoading # {}
      [] r = "cube" -> cube_pending # {}
      [] r \in Shaders -> sh_pending[r] # {}
      [] r \in ModelNames -> Len(mdl_pending[r]) > 0

\* the continuation of startNewBattle has run
ContinuationRan == scr_bound \/ scr_renderLoop

\* C22: there is no timeout, retry or failure path: as long as one fetch of a
\* resource's batch has not completed the resource is loading and not ready,
\* however many other fetches have completed, and the continuation that
\* waits on the whole registry is still held by the manager and has not run.
C22_PendingFetchBlocks ==
    \A r \in registered :
        FetchPending(r) =>
            /\ state[r] = "Loading"
            /\ ~isReadyToUse(r)
            /\ mgr_onReady
            /\ ~ContinuationRan

\* all fetches but one face of the cubemap have completed, among them
\* those of another resource, and the continuation still waits
C22_Witness ==
    /\ registered = {"cube", "X"}
    /\ isReadyToUse("X")
    /\ Cardinality(cube_pending) = 1
    /\ cube_facesLoaded = <<NumFaces - 1>>
    /\ state["cube"] = "Loading"
    /\ mgr_onReady
    /\ ~ContinuationRan

C23_Step ==
    (ContinuationRan' /\ ~ContinuationRan) =>
        /\ scr_bound' /\ scr_renderLoop'
        /\ ManagerReady(state')
        /\ \A r \in scr_scene' : isReadyToUse(r)'
        /\ ~mgr_onReady'

\* C23: the continuation startNewBattle registers with executeWhenReady
\* before it calls requestResourceLoad runs only once every outstanding
\* resource of the registry is ready: the scene is bound to the canvas and
\* the render loop is started only in a state where all resources scheduled
\* for the scene are ready, and while one of them is not, neither has happened.
C23_ContinuationAfterAllReady ==
    /\ [](ContinuationRan => \A r \in scr_scene : isReadyToUse(r))
    /\ [](mgr_onReady => ~ContinuationRan /\ scr_phase \in {"registered", "started"})
    /\ [][C23_Step]_vars

\* the battle's scene needed two resources, both have become ready and the
\* render loop runs
C23_Witness ==
    /\ scr_scene = {"cube", "X"}
    /\ scr_phase = "started"
    /\ scr_bound
    /\ scr_renderLoop
    /\ ~mgr_onReady
    /\ isReadyToUse("cube") /\ isReadyToUse("X")

\* C21: if every fetch that is issued eventually completes, every resource
\* for which a request issued fetches eventually becomes ready, and the
\* callbacks deferred on it have then run and left its queue; this holds for
\* the texture, the cubemap, the shaders and the models under every
\* interleaving of requests and completions.
C21_FetchesLeadToReady ==
    /\ \A r \in Res : FetchPending(r) ~> isReadyToUse(r)
    /\ \A r \in Res : (FetchPending(r) /\ r \in res_onReady) ~> (r \in res_ran /\ r \notin res_onReady)
    /\ [](\A r \in res_onReady : ~isReadyToUse(r) /\ r \notin res_ran)

\* a callback deferred on a texture that was loading has run
C21_Witness ==
    /\ isReadyToUse("tex")
    /\ "tex" \in res_ran
    /\ tex_loadedImages = tex_imagesToLoad
    /\ tex_loadedImages >= 2
    /\ res_onReady = {}

\* C24: no operation of the manager or of a resource raises an exception to
\* its caller; every detected error condition, a name with no registered
\* shader passed to getFallbackShader included, ends as a reported error
\* with a null or no-op result.
C24_NoExceptionRaised == ret.tag # "exception"

\* C31: each declared file of a model is fetched at most once: no request is
\* ever outstanding for the file whose tier is the one already loaded
\* (maxLoadedLOD), also when the requested target lies between the loaded
\* tier and the next higher declared tier.
C31_FileFetchedAtMostOnce ==
    \A n \in ModelNames :
        \A i \in 1..Len(mdl_pending[n]) : mdl_pending[n][i].lod # mdl_maxLoadedLOD[n]

\* what a page-building function writes
pageVars == <<gs_body, gs_background, gs_attached, gs_stale, gs_status>>

\* the HTML document of the screen has been received completely
ModelLoaded == gs_readyState = 4

C32_BeforeLoad ==
    /\ (BuildPage /\ ~ModelLoaded) =>
          (UNCHANGED pageVars /\ gs_onModelLoad' = "buildPage")
    /\ (SuperimposeOnPage /\ ~ModelLoaded) =>
          (UNCHANGED pageVars /\ gs_onModelLoad' = "superimpose")

C32_AtLoad ==
    (ReadyStateChange /\ gs_readyState' = 4) =>
        /\ gs_model' = "complete"
        /\ gs_onModelLoad = "buildPage" =>
              (gs_body' = "complete" /\ gs_status' /\ UNCHANGED gs_background)
        /\ gs_onModelLoad = "superimpose" =>
              (gs_background' /\ gs_attached' /\ gs_status' /\ UNCHANGED gs_body)
        /\ gs_onModelLoad = "noop" => UNCHANGED pageVars

C32_AfterLoad ==
    /\ (BuildPage /\ ModelLoaded) =>
          (gs_body' = "complete" /\ gs_status' /\ UNCHANGED gs_onModelLoad)
    /\ (SuperimposeOnPage /\ ModelLoaded) =>
          (gs_background' /\ gs_attached' /\ gs_status' /\ UNCHANGED <<gs_onModelLoad, gs_body>>)

\* C32: buildPage and superimposeOnPage called before the screen's HTML
\* model has loaded leave the page as it is at call time and store their
\* page-building function, replacing one stored by an earlier call, and the
\* stored function is the one run when the load of the model completes;
\* called after the model has loaded they run their page-building function
\* within the call.
C32_PageBuiltAtLoadOrAtOnce == [][C32_BeforeLoad /\ C32_AtLoad /\ C32_AfterLoad]_vars

\* C33: the page-building function deferred by a buildPage or
\* superimposeOnPage call runs exactly once and only after the HTML document
\* has been received completely; the earlier ready-state changes of the
\* request do not run it.
C33_DeferredRunsOnceOnCompleteModel ==
    /\ gs_runs <= 1
    /\ gs_runs >= 1 => gs_readyState = 4

C35_Step ==
    CloseSuperimposedPage =>
        IF ~isSuperimposed
        THEN /\ err' = "not superimposed"
             /\ UNCHANGED pageVars
        ELSE /\ ret'.tag # "exception"
             /\ ~gs_attached'
             /\ ~isSuperimposed'
             /\ ~gs_status'

\* C35: closeSuperimposedPage on a screen that is not superimposed reports
\* an error and changes nothing; on a superimposed screen it removes the
\* container and the background, after which isSuperimposed() is false and
\* the status component is null.
C35_CloseSuperimposedPage == [][C35_Step]_vars

\* C36: refresh(elements, descriptor, params) stores the descriptor it is
\* given; with the descriptor of the previous refresh and no params the
\* preview is refreshed with {preserve: true, reload: true}; with another
\* descriptor clearSettingsForNewItem is called and params is passed on as
\* it is.  With a descriptor stored, _load creates a new mission exactly
\* when preserve is false or reload is true.
C36_RefreshStep ==
    \A d \in Descriptors, p \in RefreshParams :
        MpRefresh(d, p) =>
            /\ mp_missionDescriptor' = d
            /\ (mp_missionDescriptor = d /\ p = Undefined) =>
                   /\ mp_refreshed' = PreserveAndReload
                   /\ ~mp_settingsCleared'
            /\ mp_missionDescriptor # d =>
                   /\ mp_settingsCleared'
                   /\ mp_refreshed' = p

C36_LoadStep ==
    \A p \in RefreshParams :
        (MpLoad(p) /\ mp_missionDescriptor # Undefined) =>
            LET preserve == p # Undefined /\ p.preserve
                reload == p # Undefined /\ p.reload
                created == /\ mp_created' = mp_created + 1
                           /\ mp_mission' = Mission(mp_created', mp_missionDescriptor)
            IN  /\ (~preserve \/ reload) => created
                /\ ~(~preserve \/ reload) => UNCHANGED <<mp_created, mp_mission>>

C36_RefreshAndLoad == [][C36_RefreshStep /\ C36_LoadStep]_vars

\* a refresh with the same descriptor and no params was followed by a load
\* with the params it passed on, and a refresh with another descriptor
\* cleared the settings; a preserved mission was kept by a load
C36_Witness ==
    /\ mp_refreshed = PreserveAndReload
    /\ ~mp_settingsCleared
    /\ mp_created = 2
    /\ IsMission(mp_mission)
    /\ mp_mission.serial = 2
    /\ mp_destroyed = 1

\* C37: the object _load calls addToScene on is always a mission, also
\* after _clear and before any mission was created; _clear destroys each
\* mission at most once
C37_AddToSceneOnMission ==
    /\ mp_added.tag \in {"none", "Mission"}
    /\ mp_destroyed <= mp_created

====
